---- MODULE Spec2Model ----
(***************************************************************************)
(* Camera fly-through of a geographic track (3d-map, pages/mapbox).        *)
(*                                                                         *)
(* The model follows the length-ratio variant of the drivers               *)
(* (flyInAndRotate, animatePath, normalizeBearing, getBearing,             *)
(* getLineRatio: src/unnamed/part_002 lines 257-541), the great-circle     *)
(* projection (part_002 lines 542-629) and the host page that builds the   *)
(* bearing schedule and plays the two stages (src/unnamed/part_003).       *)
(*                                                                         *)
(* Numbers.  Every quantity is an exact rational kept as integers over a   *)
(* stated denominator:                                                     *)
(*   - coordinates are whole degrees, multiples of 90, so that sin, cos    *)
(*     and atan2 are exact (SinDeg, CosDeg, Atan2Deg);                     *)
(*   - lengths are whole metres; a ratio x/distance is kept as its         *)
(*     numerator x (lNum, rNum) and compared by cross-multiplication;      *)
(*   - a fly-in pose is kept multiplied by duration^3 (the denominator of  *)
(*     the cubic ease), a path-follow bearing multiplied by the width of   *)
(*     its interval (the denominator of the blend).                        *)
(* undefined and NaN are explicit flags (defined, nan), never numbers.     *)
(***************************************************************************)
EXTENDS Integers, Sequences, FiniteSets, TLC

(***************************************************************************)
(* Bounds of the model                                                     *)
(***************************************************************************)
MaxTrackLen == 3        \* points in a track: 0..MaxTrackLen
MaxSpeed == 3           \* metres per frame: 1..MaxSpeed
QuarterMetres == 10     \* metres in a quarter of a great circle (model scale)
MaxFirstTime == 1       \* timestamp of the first delivered frame: 0..MaxFirstTime
MaxStep == 2            \* timestamps grow by 1..MaxStep between two frames
MaxDuration == 3        \* fly-in duration, in timestamp ticks: 1..MaxDuration
HostDuration == 2       \* spaceView.duration of the host page, in ticks
MaxTurns == 2           \* normalizeBearing inputs span -MaxTurns..MaxTurns turns
MaxCalls == 3           \* calls of computeCameraPosition on one page
MaxZoomLimit == 3       \* minZoom and maxZoom range over -1..MaxZoomLimit

\* The last timestamp a frame is delivered with: past the point where every
\* fly-in run has resolved (start <= MaxFirstTime + MaxStep, and the run
\* resolves on the first frame at or after start + duration).
MaxTime == MaxFirstTime + MaxDuration + HostDuration + 3 * MaxStep

(***************************************************************************)
(* Program constants                                                       *)
(***************************************************************************)
PITCH == 60                 \* part_003 line 17
ALTITUDE == 3000            \* part_003 line 19, metres
StartAltitude == 3000000    \* part_003 line 172, metres
StartPitch == 40            \* part_003 line 173
FullTurn == 360             \* degrees in a turn (part_002 lines 408, 530-535)
HalfTurn == 180             \* degrees in half a turn (part_002 line 408)
RatioNum == 1               \* const ratio = 0.2 (part_002 line 471), as 1/5
RatioDen == 5
VariantRatioNum == 1        \* const ratio = 0.1 (part_002 line 191), as 1/10
VariantRatioDen == 10
Million == 1000000          \* 1e-12 = 1 / (Million * Million), part_002 line 605
MetresPerDegree == 111320   \* part_002 lines 285, 289
SmoothNum == 19             \* SMOOTH_FACTOR = 0.95 (part_002 line 301), as 19/20
SmoothDen == 20
InitialSpeedNum == 5         \* initial.speed = 5/3, part_000 line 24
InitialSpeedDen == 3
InitialZoom == 0             \* part_000 line 25
InitialLatMicro == 22412646  \* initial.lat = 22.412646042481583, part_000 line 26
InitialPitch == 60           \* part_000 line 27
CosUnit == 200000            \* 1e-5 is 2 / CosUnit, part_000 line 57

(***************************************************************************)
(* Arithmetic of the host language                                         *)
(***************************************************************************)
Abs(x) == IF x < 0 THEN -x ELSE x

\* The remainder operator a % n of the source: the sign of the dividend.
JsMod(a, n) == IF a >= 0 THEN a % n ELSE -((-a) % n)

\* Math.sin, Math.cos, in degrees, exact at the multiples of 90.
Quadrant(d) == (d % FullTurn) \div 90
SinDeg(d) == CASE Quadrant(d) = 0 -> 0 [] Quadrant(d) = 1 -> 1
               [] Quadrant(d) = 2 -> 0 [] OTHER -> -1
CosDeg(d) == CASE Quadrant(d) = 0 -> 1 [] Quadrant(d) = 1 -> 0
               [] Quadrant(d) = 2 -> -1 [] OTHER -> 0

\* Math.atan2(y, x) in degrees, in (-180, 180], for y, x in {-1, 0, 1}.
Atan2Deg(y, x) ==
    CASE y = 0 /\ x >= 0 -> 0
      [] y = 0 /\ x < 0  -> 180
      [] y > 0 /\ x = 0  -> 90
      [] y < 0 /\ x = 0  -> -90
      [] y > 0 /\ x > 0  -> 45
      [] y > 0 /\ x < 0  -> 135
      [] y < 0 /\ x > 0  -> -45
      [] OTHER           -> -135

(***************************************************************************)
(* Coordinates                                                             *)
(***************************************************************************)
Pt(lng, lat) == [lng |-> lng, lat |-> lat]

\* Every coordinate of the model: whole quarter turns.
AllPoints == {Pt(lng, lat) : lng \in {-90, 0, 90, 180}, lat \in {-90, 0, 90}}

\* The coordinates tracks are drawn from: pairwise a quarter turn apart, so
\* that no vertex lies inside another segment and no segment is antipodal.
TrackPoints == {Pt(0, 0), Pt(90, 0), Pt(90, 90)}

\* latLonToCartesian
latLonToCartesian(lat, lon) ==
    <<CosDeg(lat) * CosDeg(lon), CosDeg(lat) * SinDeg(lon), SinDeg(lat)>>

Dot(u, v) == u[1] * v[1] + u[2] * v[2] + u[3] * v[3]

Cross(u, v) ==
    <<u[2] * v[3] - u[3] * v[2], u[3] * v[1] - u[1] * v[3], u[1] * v[2] - u[2] * v[1]>>

\* x < 1e-12 for a whole number x >= 0 (the model's squared norms are whole);
\* the second product is only formed when x = 0.
BelowEpsilon(x) == x * Million < 1 /\ x * Million * Million < 1

\* |A x B|^2 of projectPointToGreatCircle (its lines 587-602).
nNormSq(latA, lonA, latB, lonB) ==
    LET n == Cross(latLonToCartesian(latA, lonA), latLonToCartesian(latB, lonB))
    IN  Dot(n, n)

\* cartesianToLatLon, for a vector of whole components with at most one of
\* them non-zero in each of the two atan2 calls, as [lat, lon].
IntSqrt(s) == CHOOSE k \in 0..s : k * k = s
Sign(x) == IF x > 0 THEN 1 ELSE IF x < 0 THEN -1 ELSE 0
cartesianToLatLon(v) ==
    [lat |-> Atan2Deg(Sign(v[3]), Sign(IntSqrt(v[1] * v[1] + v[2] * v[2]))),
     lon |-> Atan2Deg(Sign(v[2]), Sign(v[1]))]

\* projectPointToGreatCircle(latA, lonA, latB, lonB, latC, lonC):
\*   threw  the degenerate-great-circle Error was thrown;
\*   nan    the value returned is [NaN, NaN]: C' = C - ((C.n)/|n|^2) n is the
\*          zero vector, its norm is 0 and every component is 0/0;
\*   lat, lon  the value returned otherwise.
\* C' is computed multiplied by |n|^2 > 0, which leaves its direction alone.
projectPointToGreatCircle(latA, lonA, latB, lonB, latC, lonC) ==
    LET A == latLonToCartesian(latA, lonA)
        B == latLonToCartesian(latB, lonB)
        C == latLonToCartesian(latC, lonC)
        n == Cross(A, B)
        dotCN == Dot(C, n)
        nn == nNormSq(latA, lonA, latB, lonB)
        Cprime == <<C[1] * nn - dotCN * n[1],
                    C[2] * nn - dotCN * n[2],
                    C[3] * nn - dotCN * n[3]>>
        normSq == Dot(Cprime, Cprime)
    IN  IF BelowEpsilon(nn)
        THEN [threw |-> TRUE, nan |-> FALSE, lat |-> 0, lon |-> 0]
        ELSE IF normSq = 0
        THEN [threw |-> FALSE, nan |-> TRUE, lat |-> 0, lon |-> 0]
        ELSE [threw |-> FALSE, nan |-> FALSE,
              lat |-> cartesianToLatLon(Cprime).lat,
              lon |-> cartesianToLatLon(Cprime).lon]

\* getBearing(p1, p2): forward azimuth, normalised into [0, 360).
getBearing(p1, p2) ==
    LET y == SinDeg(p2.lng - p1.lng) * CosDeg(p2.lat)
        x == CosDeg(p1.lat) * SinDeg(p2.lat)
             - SinDeg(p1.lat) * CosDeg(p2.lat) * CosDeg(p2.lng - p1.lng)
    IN  JsMod(Atan2Deg(y, x) + FullTurn, FullTurn)

\* normalizeBearing(currentBearing, targetBearing)
NormalizeBearingOneWay(currentBearing, targetBearing) ==
    JsMod(JsMod(JsMod(targetBearing, FullTurn) + FullTurn, FullTurn)
          - JsMod(JsMod(currentBearing, FullTurn) + FullTurn, FullTurn)
          + FullTurn, FullTurn)
normalizeBearing(currentBearing, targetBearing) ==
    LET cur == JsMod(JsMod(currentBearing, FullTurn) + FullTurn, FullTurn)
        tgt == JsMod(JsMod(targetBearing, FullTurn) + FullTurn, FullTurn)
        diff1 == JsMod(tgt - cur + FullTurn, FullTurn)
        diff2 == diff1 - FullTurn
    IN  IF Abs(diff1) <= Abs(diff2) THEN diff1 ELSE diff2

(***************************************************************************)
(* Track geometry (turf.length, turf.lineSlice, turf.simplify)             *)
(***************************************************************************)
\* Great-circle distance of two model coordinates, in metres: 0, 1 or 2
\* quarters of a great circle.
PointDistance(p, q) ==
    QuarterMetres * (1 - Dot(latLonToCartesian(p.lat, p.lng),
                             latLonToCartesian(q.lat, q.lng)))

\* Length of the track from its start to the vertex with 0-based index i.
RECURSIVE CumLength(_, _)
CumLength(coords, i) ==
    IF i <= 0 THEN 0
    ELSE CumLength(coords, i - 1) + PointDistance(coords[i], coords[i + 1])

\* turf.length(trackData) * 1000: the whole length in metres.
TrackLength(coords) == CumLength(coords, Len(coords) - 1)

\* The place on the line turf.lineSlice snaps a coordinate to: the first
\* place of the line at distance 0, which is the first vertex equal to it.
FirstIndexOf(coords, point) ==
    CHOOSE i \in 0..(Len(coords) - 1) :
        /\ coords[i + 1] = point
        /\ \A j \in 0..(i - 1) : coords[j + 1] # point

\* getLineRatio(trackData, point) * 1000: metres from the start of the line
\* to the place `point` snaps to.  The ratio itself is this over TrackLength.
getLineRatio(coords, point) == CumLength(coords, FirstIndexOf(coords, point))

\* turf.simplify: every track of at most two points is returned as it is;
\* a longer one keeps its first and last points and any of the others.
RECURSIVE SubSeqsOf(_)
SubSeqsOf(s) ==
    IF s = <<>> THEN {<<>>}
    ELSE LET rest == SubSeqsOf(Tail(s))
         IN  rest \cup {<<Head(s)>> \o r : r \in rest}
Simplifications(coords) ==
    IF Len(coords) <= 2 THEN {coords}
    ELSE {<<coords[1]>> \o m \o <<coords[Len(coords)]>> :
            m \in SubSeqsOf(SubSeq(coords, 2, Len(coords) - 1))}

(***************************************************************************)
(* initData: the bearing schedule                                          *)
(***************************************************************************)
\* One entry of bearingList.  l and r are 0-based indices into the track;
\* lNum and rNum are lRatio and rRatio multiplied by the track length.
BearingEntry(coords, simplified, lastIndex, index, simplifiedIndex) ==
    [l |-> lastIndex,
     lNum |-> getLineRatio(coords, coords[lastIndex + 1]),
     r |-> index,
     rNum |-> getLineRatio(coords, coords[index + 1]),
     bearing |-> getBearing(simplified[simplifiedIndex], coords[index + 1])]

\* The forEach of initData from 0-based index `index` on; simplifiedIndex is
\* 0-based as in the source.  Reading simplified[simplifiedIndex] past the
\* end of the simplified track yields undefined, and destructuring it throws.
RECURSIVE InitDataWalk(_, _, _, _, _, _)
InitDataWalk(coords, simplified, index, simplifiedIndex, lastIndex, bearingList) ==
    IF index >= Len(coords)
    THEN [threw |-> FALSE, bearingList |-> bearingList]
    ELSE IF simplifiedIndex >= Len(simplified)
    THEN [threw |-> TRUE, bearingList |-> <<>>]
    ELSE IF coords[index + 1] = simplified[simplifiedIndex + 1]
    THEN InitDataWalk(coords, simplified, index + 1, simplifiedIndex + 1, index,
             Append(bearingList,
                    BearingEntry(coords, simplified, lastIndex, index, simplifiedIndex)))
    ELSE InitDataWalk(coords, simplified, index + 1, simplifiedIndex, lastIndex,
                      bearingList)

initData(coords, simplified) == InitDataWalk(coords, simplified, 0, 1, 0, <<>>)

(***************************************************************************)
(* State                                                                   *)
(***************************************************************************)
VARIABLES
    pc,                     \* where the host page is (init, initMap, style.load handler)
    coordinates,            \* trackData.geometry.coordinates
    speed,                  \* Speed, metres per frame
    simplifiedData,         \* the simplified track of initData
    bearingList,            \* the schedule initData returned
    mapCreated,             \* new mapboxgl.Map(...) has run
    now,                    \* timestamp of the last frame delivered, -1 before any
    fly,                    \* one flyInAndRotate run: arguments, closure, promise
    path,                   \* one animatePath run: closure, promise
    camera,                 \* the pose last given to map.setFreeCameraOptions
    reveal,                 \* the line-gradient last given to map.setPaintProperty
    previousCameraPosition, \* the module-level cache of computeCameraPosition
    lastFrame,              \* what the frame callback that ran last did
    nb,                     \* one call of normalizeBearing
    pj,                     \* one call of projectPointToGreatCircle
    cp,                     \* the calls of computeCameraPosition of one page
    zm                      \* one call of calculateZoomForConstantSpeed

vars == <<pc, coordinates, speed, simplifiedData, bearingList, mapCreated, now,
          fly, path, camera, reveal, previousCameraPosition, lastFrame, nb, pj,
          cp, zm>>

\* Every track of at most MaxTrackLen points.
Tracks == UNION {[1..n -> TrackPoints] : n \in 0..MaxTrackLen}

\* A ground point handed to computeCameraPosition: a coordinate (fly-in), or
\* the projection onto the great circle through coordinates[l] and
\* coordinates[r] of the point `along` metres down the track (path-follow).
GroundPoint(point) ==
    [projected |-> FALSE, lng |-> point.lng, lat |-> point.lat,
     l |-> 0, r |-> 0, along |-> 0]
ProjectedPoint(l, r, along) ==
    [projected |-> TRUE, lng |-> 0, lat |-> 0, l |-> l, r |-> r, along |-> along]

\* A pose: pitch, bearing and altitude are numerators over den; the phase is
\* phaseNum / phaseDen.  driver "none" is the camera before any animation.
NoPose ==
    [driver |-> "none", phaseNum |-> 0, phaseDen |-> 1, den |-> 1,
     pitch |-> 0, bearing |-> 0, bearingDefined |-> TRUE, altitude |-> 0,
     target |-> GroundPoint(Pt(0, 0))]

NoCameraPosition == [defined |-> FALSE, smoothed |-> FALSE, pose |-> NoPose]

\* computeCameraPosition(pitch, bearing, targetPosition, altitude, smooth):
\* the corrected position is a function of its arguments, kept as the pose
\* that carries them; with smooth and a cached position it is the blend of
\* that function's value with the cache.  The value returned is also what
\* the cache holds afterwards (previousCameraPosition = newCameraPosition).
computeCameraPosition(pose, smooth, previous) ==
    [defined |-> TRUE, smoothed |-> smooth /\ previous.defined, pose |-> pose]

NoFly ==
    [duration |-> 1, startAltitude |-> 0, endAltitude |-> 0,
     startBearing |-> 0, endBearing |-> 0, startPitch |-> 0, endPitch |-> 0,
     target |-> Pt(0, 0),
     promise |-> "none", requested |-> FALSE, start |-> -1,
     frames |-> 0, firstTime |-> -1, resolves |-> 0,
     resolvedBearing |-> 0, resolvedAltitude |-> 0]

NoPath ==
    [promise |-> "none", requested |-> FALSE, index |-> 0, nextBearingIndex |-> 1,
     frames |-> 0, error |-> "none"]

NoReveal == [set |-> FALSE, num |-> 0, den |-> 1]
NoFrame == [driver |-> "none", kind |-> "none", index |-> 0]
NoNb == [current |-> 0, target |-> 0, done |-> FALSE, result |-> 0]
NoPj == [A |-> Pt(0, 0), B |-> Pt(0, 0), C |-> Pt(0, 0), done |-> FALSE,
         result |-> [threw |-> FALSE, nan |-> FALSE, lat |-> 0, lon |-> 0]]

\* A camera position as exact fractions lng / den, lat / den; `defined` is
\* false for the cache before the first call (let previousCameraPosition).
\* `finite` is false for a position whose lng and lat are Infinity,
\* -Infinity or NaN; its lng, lat and den then carry no value (0, 0, 1).
NoPosition == [defined |-> FALSE, finite |-> TRUE, lng |-> 0, lat |-> 0, den |-> 1]
NoCp == [run |-> 0, calls |-> 0, runCalls |-> 0, cache |-> NoPosition,
         last |-> [smooth |-> FALSE, raw |-> NoPosition, previous |-> NoPosition,
                   result |-> NoPosition, pitch |-> 0, bearing |-> 0]]
NoZm == [done |-> FALSE, speedNum |-> 0, lat |-> 0, pitch |-> 0,
         minZoom |-> 0, maxZoom |-> 0, result |-> 0]

(***************************************************************************)
(* flyInAndRotate                                                          *)
(***************************************************************************)
\* The call: the promise is created and the first frame requested.
FlyInCall(args) ==
    [NoFly EXCEPT !.duration = args.duration,
                  !.startAltitude = args.startAltitude,
                  !.endAltitude = args.endAltitude,
                  !.startBearing = args.startBearing,
                  !.endBearing = args.endBearing,
                  !.startPitch = args.startPitch,
                  !.endPitch = args.endPitch,
                  !.target = args.target,
                  !.promise = "pending", !.requested = TRUE]

\* if (!start) start = time;  -- undefined (-1) and 0 are both falsy.
LatchStart(start, time) == IF start = -1 \/ start = 0 THEN time ELSE start

\* animationPhase * duration, after if (animationPhase > 1) animationPhase = 1.
FlyPhaseUnclamped(time, start, duration) == time - start
FlyPhase(time, start, duration) ==
    IF time - start > duration THEN duration ELSE time - start

\* d3.easeCubicOut(e / d) * d^3, where easeCubicOut(t) = --t * t * t + 1.
EaseCubicOut(e, d) == d * d * d - (d - e) * (d - e) * (d - e)

\* start + (end - start) * easeCubicOut(phase), times d^3.
FlyLerp(from, to, e, d) == from * d * d * d + (to - from) * EaseCubicOut(e, d)

\* if (animationPhase === 1) { resolve(...); return; }
FlyDone(e, d) == e = d

\* Whether the frame ends in window.requestAnimationFrame(frame): it does
\* unless the return after resolve was taken.
FlyRequestsNextAlways(e, d) == TRUE
FlyRequestsNext(e, d) == ~FlyDone(e, d)

FlyPose(f, e) ==
    [driver |-> "fly", phaseNum |-> e, phaseDen |-> f.duration,
     den |-> f.duration * f.duration * f.duration,
     pitch |-> FlyLerp(f.startPitch, f.endPitch, e, f.duration),
     bearing |-> FlyLerp(f.startBearing, f.endBearing, e, f.duration),
     bearingDefined |-> TRUE,
     altitude |-> FlyLerp(f.startAltitude, f.endAltitude, e, f.duration),
     target |-> GroundPoint(f.target)]

\* One run of the frame callback of flyInAndRotate with timestamp `time`.
FlyFrame(time) ==
    /\ fly.requested
    /\ LET start == LatchStart(fly.start, time)
           e == FlyPhase(time, start, fly.duration)
           pose == FlyPose(fly, e)
           done == FlyDone(e, fly.duration)
       IN  /\ previousCameraPosition' =
                  computeCameraPosition(pose, FALSE, previousCameraPosition)
           /\ camera' = pose
           /\ fly' = [fly EXCEPT
                  !.start = start,
                  !.frames = @ + 1,
                  !.firstTime = IF @ = -1 THEN time ELSE @,
                  !.requested = FlyRequestsNext(e, fly.duration),
                  !.promise = IF done /\ @ = "pending" THEN "resolved" ELSE @,
                  !.resolves = IF done THEN @ + 1 ELSE @,
                  !.resolvedBearing = IF done /\ fly.promise = "pending"
                                      THEN pose.bearing ELSE @,
                  !.resolvedAltitude = IF done /\ fly.promise = "pending"
                                       THEN pose.altitude ELSE @]
           /\ lastFrame' = [driver |-> "fly",
                            kind |-> IF done THEN "final" ELSE "pose",
                            index |-> fly.frames]
    /\ now' = time
    /\ UNCHANGED <<pc, coordinates, speed, simplifiedData, bearingList, mapCreated,
                   path, reveal, nb, pj,
                   cp, zm>>

\* The timestamps the next frame can be delivered with.
NextTimes ==
    IF now = -1 THEN 0..MaxFirstTime
    ELSE {t \in (now + 1)..(now + MaxStep) : t <= MaxTime}

FlyFrameStep == \E time \in NextTimes : FlyFrame(time)

(***************************************************************************)
(* animatePath                                                             *)
(***************************************************************************)
\* if (animationPhase > 1), with animationPhase = speed * index / (distance * 1000):
\* traveled = speed * index metres against the track length.  (A track of
\* length 0 gives NaN at index 0, which is not > 1, and Infinity afterwards.)
PathTerminalAtOne(traveled, length) == traveled >= length
PathTerminal(traveled, length) == traveled > length

\* lRangeRatio = lRatio + (rRatio - lRatio) * (1 - ratio), times the track
\* length and RatioDen.
LRangeScaled(entry) ==
    entry.lNum * RatioDen + (entry.rNum - entry.lNum) * (RatioDen - RatioNum)

\* The bearing of one frame, as [defined, num, den, advance]:
\*   rRatio <= animationPhase: the cursor advances and the bearing is the
\*     next entry's (undefined when there is none);
\*   nextBearing truthy and lRangeRatio <= animationPhase < rRatio: the blend
\*     currentBearing + rotation * normalizedTime;
\*   otherwise currentBearing.
FrameBearing(entry, hasNext, nextBearing, traveled) ==
    IF entry.rNum <= traveled
    THEN [defined |-> hasNext, num |-> IF hasNext THEN nextBearing ELSE 0,
          den |-> 1, advance |-> TRUE]
    ELSE IF hasNext /\ nextBearing # 0 /\ traveled < entry.rNum
            /\ LRangeScaled(entry) <= traveled * RatioDen
    THEN LET den == entry.rNum * RatioDen - LRangeScaled(entry)
             rotation == normalizeBearing(entry.bearing, nextBearing)
         IN  [defined |-> TRUE,
              num |-> entry.bearing * den
                      + rotation * (traveled * RatioDen - LRangeScaled(entry)),
              den |-> den, advance |-> FALSE]
    ELSE [defined |-> TRUE, num |-> entry.bearing, den |-> 1, advance |-> FALSE]

\* What a frame that throws leaves behind: the frame's own promise rejects
\* with nobody awaiting it, nothing was emitted, no frame is requested and
\* resolve is never called.
PathFrameFailed(p, error) == [p EXCEPT !.requested = FALSE, !.frames = @ + 1,
                                       !.error = error]

\* One run of the frame callback of animatePath on closure p.
\* rejectsNaN: whether mapboxgl.MercatorCoordinate.fromLngLat throws when the
\* corrected position is NaN, which it is when the bearing is undefined; the
\* frame has then set the line-gradient and overwritten the position cache,
\* and has not set the camera, advanced index or requested a frame.
\* The result is [path, kind, pose, reveal] and what of it was carried out:
\* paints (setPaintProperty), computes (computeCameraPosition), emits
\* (setFreeCameraOptions).
PathFrameBody(p, rejectsNaN) ==
    LET traveled == speed * p.index
        length == TrackLength(coordinates)
        quiet == [paints |-> FALSE, computes |-> FALSE, emits |-> FALSE,
                  pose |-> NoPose, reveal |-> NoReveal]
    IN  IF PathTerminal(traveled, length)
        THEN [path |-> [p EXCEPT !.requested = FALSE, !.frames = @ + 1,
                                 !.promise = IF @ = "pending" THEN "resolved" ELSE @],
              kind |-> "terminal"] @@ quiet
        ELSE IF p.nextBearingIndex > Len(bearingList)
        THEN [path |-> PathFrameFailed(p, "TypeError"), kind |-> "failed"] @@ quiet
        ELSE
        LET entry == bearingList[p.nextBearingIndex]
            hasNext == p.nextBearingIndex + 1 <= Len(bearingList)
            nextBearing == IF hasNext THEN bearingList[p.nextBearingIndex + 1].bearing
                           ELSE 0
            startPoint == coordinates[entry.l + 1]
            endPoint == coordinates[entry.r + 1]
            b == FrameBearing(entry, hasNext, nextBearing, traveled)
            reveal_ == [set |-> TRUE, num |-> traveled, den |-> length]
            pose == [driver |-> "path", phaseNum |-> traveled,
                     phaseDen |-> length, den |-> b.den,
                     pitch |-> PITCH * b.den, bearing |-> b.num,
                     bearingDefined |-> b.defined,
                     altitude |-> ALTITUDE * b.den,
                     target |-> ProjectedPoint(entry.l, entry.r, traveled)]
        IN  IF BelowEpsilon(nNormSq(startPoint.lat, startPoint.lng,
                                    endPoint.lat, endPoint.lng))
            THEN [path |-> PathFrameFailed(p, "Error"), kind |-> "failed"] @@ quiet
            ELSE IF ~b.defined /\ rejectsNaN
            THEN [path |-> [PathFrameFailed(p, "Error") EXCEPT
                               !.nextBearingIndex = IF b.advance THEN @ + 1 ELSE @],
                  kind |-> "failed", paints |-> TRUE, computes |-> TRUE,
                  emits |-> FALSE, reveal |-> reveal_, pose |-> pose]
            ELSE [path |-> [p EXCEPT !.requested = TRUE, !.frames = @ + 1,
                                     !.index = @ + 1,
                                     !.nextBearingIndex =
                                         IF b.advance THEN @ + 1 ELSE @],
                  kind |-> "pose", paints |-> TRUE, computes |-> TRUE,
                  emits |-> TRUE, reveal |-> reveal_, pose |-> pose]

\* The effect of one frame of animatePath on the state.
PathFrameEffect(p) ==
    \E rejectsNaN \in BOOLEAN :
        LET f == PathFrameBody(p, rejectsNaN)
        IN  /\ path' = f.path
            /\ camera' = IF f.emits THEN f.pose ELSE camera
            /\ reveal' = IF f.paints THEN f.reveal ELSE reveal
            /\ previousCameraPosition' =
                   IF f.computes
                   THEN computeCameraPosition(f.pose, FALSE, previousCameraPosition)
                   ELSE previousCameraPosition
            /\ lastFrame' = [driver |-> "path", kind |-> f.kind, index |-> p.index]

\* A frame delivered by window.requestAnimationFrame.
PathFrameStep ==
    /\ path.requested
    /\ PathFrameEffect(path)
    /\ UNCHANGED <<pc, coordinates, speed, simplifiedData, bearingList, mapCreated,
                   now, fly, nb, pj,
                   cp, zm>>

(***************************************************************************)
(* The host page: init, initMap and its style.load handler                 *)
(***************************************************************************)
\* const data = await initData(): the schedule, or the rejection of init.
InitDataStep ==
    /\ pc = "init"
    /\ \E simplified \in Simplifications(coordinates) :
           LET data == initData(coordinates, simplified)
           IN  /\ simplifiedData' = simplified
               /\ bearingList' = data.bearingList
               /\ pc' = IF data.threw THEN "initDataRejected" ELSE "initMap"
    /\ UNCHANGED <<coordinates, speed, mapCreated, now, fly, path, camera, reveal,
                   previousCameraPosition, lastFrame, nb, pj,
                   cp, zm>>

\* initMap(data) up to new mapboxgl.Map: reading coordinates[0][0] of an
\* empty track throws before the map exists.
InitMapStep ==
    /\ pc = "initMap"
    /\ pc' = IF Len(coordinates) = 0 THEN "initMapThrew" ELSE "styleLoad"
    /\ mapCreated' = (Len(coordinates) # 0)
    /\ UNCHANGED <<coordinates, speed, simplifiedData, bearingList, now, fly, path,
                   camera, reveal, previousCameraPosition, lastFrame, nb, pj,
                   cp, zm>>

\* endBearing: bearingList[0].bearing, the bearing the path-follow starts with.
FlyInEndBearingReversed == (bearingList[1].bearing + HalfTurn) % FullTurn
FlyInEndBearing == bearingList[1].bearing

\* The style.load handler up to await flyInAndRotate({...}); reading
\* bearingList[0].bearing of an empty schedule throws.
StyleLoadStep ==
    /\ pc = "styleLoad"
    /\ IF Len(bearingList) = 0
       THEN pc' = "handlerThrew" /\ fly' = fly
       ELSE /\ pc' = "awaitFlyIn"
            /\ fly' = FlyInCall([duration |-> HostDuration,
                                 startAltitude |-> StartAltitude,
                                 endAltitude |-> ALTITUDE,
                                 startBearing |-> 0,
                                 endBearing |-> FlyInEndBearing,
                                 startPitch |-> StartPitch,
                                 endPitch |-> PITCH,
                                 target |-> coordinates[1]])
    /\ UNCHANGED <<coordinates, speed, simplifiedData, bearingList, mapCreated, now,
                   path, camera, reveal, previousCameraPosition, lastFrame, nb, pj,
                   cp, zm>>

\* await flyInAndRotate(...) lets the handler go on once the promise is
\* resolved.
FlyInNotAwaited == fly.promise # "none"
FlyInAwaited == fly.promise = "resolved"

\* await animatePath({...}): the call creates the promise and runs frame()
\* once, synchronously.
AnimatePathStep ==
    /\ pc = "awaitFlyIn"
    /\ FlyInAwaited
    /\ pc' = "awaitAnimatePath"
    /\ PathFrameEffect([NoPath EXCEPT !.promise = "pending"])
    /\ UNCHANGED <<coordinates, speed, simplifiedData, bearingList, mapCreated,
                   now, fly, nb, pj,
                   cp, zm>>

\* The handler returns once animatePath has resolved.
HandlerDoneStep ==
    /\ pc = "awaitAnimatePath"
    /\ path.promise = "resolved"
    /\ pc' = "done"
    /\ UNCHANGED <<coordinates, speed, simplifiedData, bearingList, mapCreated, now,
                   fly, path, camera, reveal, previousCameraPosition, lastFrame,
                   nb, pj,
                   cp, zm>>

Init ==
    /\ pc = "init"
    /\ coordinates \in Tracks
    /\ speed \in 1..MaxSpeed
    /\ simplifiedData = <<>>
    /\ bearingList = <<>>
    /\ mapCreated = FALSE
    /\ now = -1
    /\ fly = NoFly
    /\ path = NoPath
    /\ camera = NoPose
    /\ reveal = NoReveal
    /\ previousCameraPosition = NoCameraPosition
    /\ lastFrame = NoFrame
    /\ nb = NoNb
    /\ pj = NoPj
    /\ cp = NoCp
    /\ zm = NoZm

Next ==
    \/ InitDataStep
    \/ InitMapStep
    \/ StyleLoadStep
    \/ FlyFrameStep
    \/ AnimatePathStep
    \/ PathFrameStep
    \/ HandlerDoneStep

Spec == Init /\ [][Next]_vars

(***************************************************************************)
(* flyInAndRotate on its own, for any arguments                            *)
(***************************************************************************)
FlyAltitudes == {ALTITUDE, StartAltitude}
FlyBearings == {0, 270}
FlyPitches == {StartPitch, PITCH}

FlyArguments ==
    [duration : 1..MaxDuration,
     startAltitude : FlyAltitudes, endAltitude : FlyAltitudes,
     startBearing : FlyBearings, endBearing : FlyBearings,
     startPitch : FlyPitches, endPitch : FlyPitches,
     target : {Pt(0, 0)}]

InitFly ==
    /\ pc = "flyInAndRotate"
    /\ coordinates = <<>>
    /\ speed = 1
    /\ simplifiedData = <<>>
    /\ bearingList = <<>>
    /\ mapCreated = FALSE
    /\ now = -1
    /\ \E args \in FlyArguments : fly = FlyInCall(args)
    /\ path = NoPath
    /\ camera = NoPose
    /\ reveal = NoReveal
    /\ previousCameraPosition = NoCameraPosition
    /\ lastFrame = NoFrame
    /\ nb = NoNb
    /\ pj = NoPj
    /\ cp = NoCp
    /\ zm = NoZm

NextFly == FlyFrameStep

SpecFly == InitFly /\ [][NextFly]_vars

\* window.requestAnimationFrame runs the callback it was given: a requested
\* frame is eventually delivered.
LiveFly == SpecFly /\ WF_vars(FlyFrameStep)

(***************************************************************************)
(* normalizeBearing on its own                                             *)
(***************************************************************************)
\* Whole degrees over MaxTurns turns either way; the current bearing in
\* steps of 10 degrees.
TargetBearings == (-MaxTurns * FullTurn)..(MaxTurns * FullTurn)
CurrentBearings == {10 * k : k \in (-MaxTurns * 36)..(MaxTurns * 36)}

InitBearing ==
    /\ pc = "normalizeBearing"
    /\ coordinates = <<>>
    /\ speed = 1
    /\ simplifiedData = <<>>
    /\ bearingList = <<>>
    /\ mapCreated = FALSE
    /\ now = -1
    /\ fly = NoFly
    /\ path = NoPath
    /\ camera = NoPose
    /\ reveal = NoReveal
    /\ previousCameraPosition = NoCameraPosition
    /\ lastFrame = NoFrame
    /\ nb = NoNb
    /\ pj = NoPj
    /\ cp = NoCp
    /\ zm = NoZm

NormalizeBearingCall ==
    /\ pc = "normalizeBearing"
    /\ ~nb.done
    /\ \E current \in CurrentBearings, target \in TargetBearings :
           nb' = [current |-> current, target |-> target, done |-> TRUE,
                  result |-> normalizeBearing(current, target)]
    /\ UNCHANGED <<pc, coordinates, speed, simplifiedData, bearingList, mapCreated,
                   now, fly, path, camera, reveal, previousCameraPosition,
                   lastFrame, pj,
                   cp, zm>>

NextBearing == NormalizeBearingCall

SpecBearing == InitBearing /\ [][NextBearing]_vars

(***************************************************************************)
(* projectPointToGreatCircle on its own                                    *)
(***************************************************************************)
InitProject ==
    /\ pc = "projectPointToGreatCircle"
    /\ coordinates = <<>>
    /\ speed = 1
    /\ simplifiedData = <<>>
    /\ bearingList = <<>>
    /\ mapCreated = FALSE
    /\ now = -1
    /\ fly = NoFly
    /\ path = NoPath
    /\ camera = NoPose
    /\ reveal = NoReveal
    /\ previousCameraPosition = NoCameraPosition
    /\ lastFrame = NoFrame
    /\ nb = NoNb
    /\ pj = NoPj
    /\ cp = NoCp
    /\ zm = NoZm

ProjectCall ==
    /\ pc = "projectPointToGreatCircle"
    /\ ~pj.done
    /\ \E A \in AllPoints, B \in AllPoints, C \in AllPoints :
           pj' = [A |-> A, B |-> B, C |-> C, done |-> TRUE,
                  result |-> projectPointToGreatCircle(A.lat, A.lng, B.lat, B.lng,
                                                       C.lat, C.lng)]
    /\ UNCHANGED <<pc, coordinates, speed, simplifiedData, bearingList, mapCreated,
                   now, fly, path, camera, reveal, previousCameraPosition,
                   lastFrame, nb,
                   cp, zm>>

NextProject == ProjectCall

SpecProject == InitProject /\ [][NextProject]_vars

(***************************************************************************)
(* computeCameraPosition with its position cache, as numbers               *)
(***************************************************************************)
\* pitchInRadian = (90 - pitch) * (Math.PI / 180) is 0 at pitch 90, and
\* Math.tan(0) is 0: the divisor of altitude is zero.  Nothing tests for it.
SingularPitch(pitch) == 90 - pitch = 0

\* altitude / Math.tan((90 - pitch) degrees): the ground distance from the
\* target to the point under the camera.  Exact at pitch 45 (tan 45 = 1) and
\* at pitch 0 (tan 90 is unbounded, the quotient is 0).  At pitch 90 the
\* quotient is altitude / 0, which is Infinity for altitude > 0: see
\* CorrectedPosition.
GroundOffset(altitude, pitch) == IF pitch = 45 THEN altitude ELSE 0

\* A position that is not a number: Infinity, -Infinity or NaN in lng and lat.
NonFinitePosition ==
    [defined |-> TRUE, finite |-> FALSE, lng |-> 0, lat |-> 0, den |-> 1]

\* newCameraPosition before smoothing: the target moved back along the
\* bearing, in degrees of 111320 m (longitude degrees shrink with cos lat).
\* At a singular pitch altitude / 0 = Infinity is multiplied by the sine and
\* the cosine of the bearing: the product is Infinity, -Infinity or (for a
\* factor 0) NaN, never a finite number, and so are lngDiff, latDiff and the
\* sums with the target's coordinates.
CorrectedPosition(pitch, bearing, targetPosition, altitude) ==
    LET lngDiff == (GroundOffset(altitude, pitch) * SinDeg(-bearing))
                       \div (MetresPerDegree * CosDeg(targetPosition.lat))
        latDiff == (GroundOffset(altitude, pitch) * CosDeg(-bearing))
                       \div MetresPerDegree
    IN  IF SingularPitch(pitch) /\ altitude > 0
        THEN NonFinitePosition
        ELSE [defined |-> TRUE, finite |-> TRUE,
              lng |-> targetPosition.lng + lngDiff,
              lat |-> targetPosition.lat - latDiff, den |-> 1]

\* lerp(start, end, amt) = (1 - amt) * start + amt * end with amt =
\* SmoothNum / SmoothDen; the result is scaled by SmoothDen.
LerpTowardsStart(start, end, amtNum, amtDen) ==
    amtNum * start + (amtDen - amtNum) * end
lerp(start, end, amtNum, amtDen) == (amtDen - amtNum) * start + amtNum * end

\* if (smooth) { if (previousCameraPosition) { lerp each of lng and lat } }:
\* the position computeCameraPosition returns and stores in the cache.  A
\* lerp with an operand that is not finite is not finite (0.05 * x + 0.95 * y
\* with x or y Infinity, -Infinity or NaN).
SmoothIgnoringCache(raw, smooth, previous) == raw
SmoothedPosition(raw, smooth, previous) ==
    IF smooth /\ previous.defined
    THEN IF raw.finite /\ previous.finite
         THEN [defined |-> TRUE, finite |-> TRUE,
               lng |-> lerp(raw.lng * previous.den, previous.lng * raw.den,
                            SmoothNum, SmoothDen),
               lat |-> lerp(raw.lat * previous.den, previous.lat * raw.den,
                            SmoothNum, SmoothDen),
               den |-> raw.den * previous.den * SmoothDen]
         ELSE NonFinitePosition
    ELSE raw

\* previousCameraPosition = newCameraPosition: the cache after a call is the
\* position the call returns, whether or not it smoothed.
CachedOnlyWhenSmooth(smooth, result, previous) ==
    IF smooth THEN result ELSE previous
CachedPosition(smooth, result, previous) == result

CameraPitches == {0, 45, 90}
CameraBearings == {0, 90, 180, 270}

InitCamera ==
    /\ pc = "computeCameraPosition"
    /\ coordinates = <<>>
    /\ speed = 1
    /\ simplifiedData = <<>>
    /\ bearingList = <<>>
    /\ mapCreated = FALSE
    /\ now = -1
    /\ fly = NoFly
    /\ path = NoPath
    /\ camera = NoPose
    /\ reveal = NoReveal
    /\ previousCameraPosition = NoCameraPosition
    /\ lastFrame = NoFrame
    /\ nb = NoNb
    /\ pj = NoPj
    /\ cp = NoCp
    /\ zm = NoZm

\* One call computeCameraPosition(pitch, bearing, targetPosition, altitude,
\* smooth) by a frame of the current run.
ComputeCameraPositionCall ==
    /\ pc = "computeCameraPosition"
    /\ cp.calls < MaxCalls
    /\ \E pitch \in CameraPitches, bearing \in CameraBearings, smooth \in BOOLEAN :
           LET raw == CorrectedPosition(pitch, bearing, Pt(0, 0), MetresPerDegree)
               result == SmoothedPosition(raw, smooth, cp.cache)
           IN  cp' = [cp EXCEPT
                         !.calls = @ + 1,
                         !.runCalls = @ + 1,
                         !.cache = CachedPosition(smooth, result, cp.cache),
                         !.last = [smooth |-> smooth, raw |-> raw,
                                   previous |-> cp.cache, result |-> result,
                                   pitch |-> pitch, bearing |-> bearing]]
    /\ UNCHANGED <<pc, coordinates, speed, simplifiedData, bearingList, mapCreated,
                   now, fly, path, camera, reveal, previousCameraPosition,
                   lastFrame, nb, pj, zm>>

\* A later, independent animation run starts on the same page: creating the
\* promise and the frame closure touches nothing of the module's cache.
NextRunStarts ==
    /\ pc = "computeCameraPosition"
    /\ cp.run = 0
    /\ cp' = [cp EXCEPT !.run = 1, !.runCalls = 0]
    /\ UNCHANGED <<pc, coordinates, speed, simplifiedData, bearingList, mapCreated,
                   now, fly, path, camera, reveal, previousCameraPosition,
                   lastFrame, nb, pj, zm>>

NextCamera == ComputeCameraPositionCall \/ NextRunStarts

SpecCamera == InitCamera /\ [][NextCamera]_vars

(***************************************************************************)
(* calculateZoomForConstantSpeed                                           *)
(***************************************************************************)
\* Cosines are kept in units of 1 / CosUnit, with CosUnit = 2 * 10^5 so that
\* both 1/2 and the 1e-5 threshold of safeCos are whole.  Latitudes are in
\* millionths of a degree; the cosine of initial.lat is not a fraction, so
\* only the two latitudes whose cosine ratio to it is 1 are drawn.
CosScaled(deg) == IF deg = 0 THEN CosUnit ELSE CosUnit \div 2
ZoomPitches == {0, InitialPitch}
ZoomLats == {InitialLatMicro, -InitialLatMicro}
ZoomSpeedNums == {InitialSpeedNum, 2 * InitialSpeedNum, 4 * InitialSpeedNum}

\* safeCos: Math.abs(value) < 1e-5 ? Math.sign(value) * 1e-5 : value.
safeCos(value) ==
    IF Abs(value) < CosUnit \div 100000
    THEN Sign(value) * (CosUnit \div 100000)
    ELSE value

\* Math.log2(num / den) for a quotient that is a power of two.
RECURSIVE Log2Ratio(_, _)
Log2Ratio(num, den) ==
    IF num = den THEN 0
    ELSE IF num > den THEN 1 + Log2Ratio(num, 2 * den)
    ELSE -1 + Log2Ratio(2 * num, den)

\* current.speed = speedNum / (2 * InitialSpeedDen); initial.speed =
\* InitialSpeedNum / InitialSpeedDen.
CalculateZoomUnclamped(speedNum, lat, pitch, minZoom, maxZoom) ==
    InitialZoom
calculateZoomForConstantSpeed(speedNum, lat, pitch, minZoom, maxZoom) ==
    LET cosInitialPitch == safeCos(CosScaled(InitialPitch))
        cosCurrentPitch == safeCos(CosScaled(pitch))
        \* cosCurrentLat / cosInitialLat: cos is even, the two are equal.
        latFactorNum == IF Abs(lat) = InitialLatMicro THEN 1 ELSE 0
        zoomDelta == Log2Ratio(2 * InitialSpeedNum, speedNum)
                     + Log2Ratio(latFactorNum, 1)
                     + Log2Ratio(cosCurrentPitch, cosInitialPitch)
        resultZoom == InitialZoom + zoomDelta
        atLeast == IF minZoom > resultZoom THEN minZoom ELSE resultZoom
    IN  IF maxZoom < atLeast THEN maxZoom ELSE atLeast

ZoomLimits == (-1)..MaxZoomLimit

InitZoom ==
    /\ pc = "calculateZoomForConstantSpeed"
    /\ coordinates = <<>>
    /\ speed = 1
    /\ simplifiedData = <<>>
    /\ bearingList = <<>>
    /\ mapCreated = FALSE
    /\ now = -1
    /\ fly = NoFly
    /\ path = NoPath
    /\ camera = NoPose
    /\ reveal = NoReveal
    /\ previousCameraPosition = NoCameraPosition
    /\ lastFrame = NoFrame
    /\ nb = NoNb
    /\ pj = NoPj
    /\ cp = NoCp
    /\ zm = NoZm

ZoomCall ==
    /\ pc = "calculateZoomForConstantSpeed"
    /\ ~zm.done
    /\ \E speedNum \in ZoomSpeedNums, lat \in ZoomLats, pitch \in ZoomPitches,
          minZoom \in ZoomLimits, maxZoom \in ZoomLimits :
           zm' = [done |-> TRUE, speedNum |-> speedNum, lat |-> lat,
                  pitch |-> pitch, minZoom |-> minZoom, maxZoom |-> maxZoom,
                  result |-> calculateZoomForConstantSpeed(speedNum, lat, pitch,
                                                           minZoom, maxZoom)]
    /\ UNCHANGED <<pc, coordinates, speed, simplifiedData, bearingList, mapCreated,
                   now, fly, path, camera, reveal, previousCameraPosition,
                   lastFrame, nb, pj, cp>>

NextZoom == ZoomCall

SpecZoom == InitZoom /\ [][NextZoom]_vars

(***************************************************************************)
(* animatePath, index-ratio variant (an interval ends at r / coordinates.length) *)
(***************************************************************************)
\* The point turf.along gives at `along` metres, handed to
\* computeCameraPosition without projection.
AlongPoint(along) ==
    [projected |-> FALSE, lng |-> 0, lat |-> 0, l |-> 0, r |-> 0, along |-> along]

\* lRange = (l + (r - l) * (1 - ratio)) / coordinates.length with ratio =
\* VariantRatioNum / VariantRatioDen, times VariantRatioDen.
LRangeIndexScaled(entry) ==
    entry.l * VariantRatioDen + (entry.r - entry.l) * (VariantRatioDen - VariantRatioNum)

\* The bearing of one frame of the variant, as [defined, num, den, advance],
\* with animationPhase = traveled / length and n = coordinates.length:
\*   r / n <= animationPhase: the cursor advances, the bearing is the next
\*     entry's (undefined when there is none);
\*   nextBearing truthy and lRange <= animationPhase < r / n: the linear blend
\*     currentBearing + (nextBearing - currentBearing) * normalizedTime;
\*   otherwise currentBearing.
IndexRatioBearing(entry, hasNext, nextBearing, traveled, length, n) ==
    IF entry.r * length <= traveled * n
    THEN [defined |-> hasNext, num |-> IF hasNext THEN nextBearing ELSE 0,
          den |-> 1, advance |-> TRUE]
    ELSE IF hasNext /\ nextBearing # 0
            /\ LRangeIndexScaled(entry) * length <= traveled * n * VariantRatioDen
    THEN LET den == (entry.r - entry.l) * length * VariantRatioNum
         IN  [defined |-> TRUE,
              num |-> entry.bearing * den
                      + (nextBearing - entry.bearing)
                            * (traveled * n * VariantRatioDen
                               - LRangeIndexScaled(entry) * length),
              den |-> den, advance |-> FALSE]
    ELSE [defined |-> TRUE, num |-> entry.bearing, den |-> 1, advance |-> FALSE]

\* One run of the frame callback of the variant on closure p; rejectsNaN as
\* in PathFrameBody.  The bearing is computed before the line-gradient is
\* set, and computeCameraPosition is called with smooth = true.
IndexRatioFrameBody(p, rejectsNaN) ==
    LET traveled == speed * p.index
        length == TrackLength(coordinates)
        quiet == [paints |-> FALSE, computes |-> FALSE, emits |-> FALSE,
                  pose |-> NoPose, reveal |-> NoReveal]
    IN  IF PathTerminal(traveled, length)
        THEN [path |-> [p EXCEPT !.requested = FALSE, !.frames = @ + 1,
                                 !.promise = IF @ = "pending" THEN "resolved" ELSE @],
              kind |-> "terminal"] @@ quiet
        ELSE IF p.nextBearingIndex > Len(bearingList)
        THEN [path |-> PathFrameFailed(p, "TypeError"), kind |-> "failed"] @@ quiet
        ELSE
        LET entry == bearingList[p.nextBearingIndex]
            hasNext == p.nextBearingIndex + 1 <= Len(bearingList)
            nextBearing == IF hasNext THEN bearingList[p.nextBearingIndex + 1].bearing
                           ELSE 0
            b == IndexRatioBearing(entry, hasNext, nextBearing, traveled, length,
                                   Len(coordinates))
            reveal_ == [set |-> TRUE, num |-> traveled, den |-> length]
            pose == [driver |-> "path", phaseNum |-> traveled,
                     phaseDen |-> length, den |-> b.den,
                     pitch |-> PITCH * b.den, bearing |-> b.num,
                     bearingDefined |-> b.defined,
                     altitude |-> ALTITUDE * b.den,
                     target |-> AlongPoint(traveled)]
        IN  IF ~b.defined /\ rejectsNaN
            THEN [path |-> [PathFrameFailed(p, "Error") EXCEPT
                               !.nextBearingIndex = IF b.advance THEN @ + 1 ELSE @],
                  kind |-> "failed", paints |-> TRUE, computes |-> TRUE,
                  emits |-> FALSE, reveal |-> reveal_, pose |-> pose]
            ELSE [path |-> [p EXCEPT !.requested = TRUE, !.frames = @ + 1,
                                     !.index = @ + 1,
                                     !.nextBearingIndex =
                                         IF b.advance THEN @ + 1 ELSE @],
                  kind |-> "pose", paints |-> TRUE, computes |-> TRUE,
                  emits |-> TRUE, reveal |-> reveal_, pose |-> pose]

IndexRatioFrameEffect(p) ==
    \E rejectsNaN \in BOOLEAN :
        LET f == IndexRatioFrameBody(p, rejectsNaN)
        IN  /\ path' = f.path
            /\ camera' = IF f.emits THEN f.pose ELSE camera
            /\ reveal' = IF f.paints THEN f.reveal ELSE reveal
            /\ previousCameraPosition' =
                   IF f.computes
                   THEN computeCameraPosition(f.pose, TRUE, previousCameraPosition)
                   ELSE previousCameraPosition
            /\ lastFrame' = [driver |-> "path", kind |-> f.kind, index |-> p.index]

\* animatePath({...}) of the variant: the promise is created and frame() runs
\* once, synchronously.
IndexRatioCall ==
    /\ pc = "animatePathIndexRatio"
    /\ pc' = "awaitAnimatePathIndexRatio"
    /\ IndexRatioFrameEffect([NoPath EXCEPT !.promise = "pending"])
    /\ UNCHANGED <<coordinates, speed, simplifiedData, bearingList, mapCreated,
                   now, fly, nb, pj, cp, zm>>

IndexRatioFrameStep ==
    /\ pc = "awaitAnimatePathIndexRatio"
    /\ path.requested
    /\ IndexRatioFrameEffect(path)
    /\ UNCHANGED <<pc, coordinates, speed, simplifiedData, bearingList, mapCreated,
                   now, fly, nb, pj, cp, zm>>

\* The variant is called with a track of positive length and a schedule of
\* {l, r, bearing} entries that ends at the last track index: the l, r and
\* bearing initData gives for the track and one of its simplifications.
InitIndexRatio ==
    /\ pc = "animatePathIndexRatio"
    /\ coordinates \in Tracks
    /\ Len(coordinates) >= 2
    /\ TrackLength(coordinates) > 0
    /\ speed \in 1..MaxSpeed
    /\ simplifiedData \in Simplifications(coordinates)
    /\ ~initData(coordinates, simplifiedData).threw
    /\ bearingList = initData(coordinates, simplifiedData).bearingList
    /\ Len(bearingList) >= 1
    /\ bearingList[Len(bearingList)].r = Len(coordinates) - 1
    /\ mapCreated = TRUE
    /\ now = -1
    /\ fly = NoFly
    /\ path = NoPath
    /\ camera = NoPose
    /\ reveal = NoReveal
    /\ previousCameraPosition = NoCameraPosition
    /\ lastFrame = NoFrame
    /\ nb = NoNb
    /\ pj = NoPj
    /\ cp = NoCp
    /\ zm = NoZm

NextIndexRatio == IndexRatioCall \/ IndexRatioFrameStep

SpecIndexRatio == InitIndexRatio /\ [][NextIndexRatio]_vars

(***************************************************************************)
(* Properties                                                              *)
(***************************************************************************)

\* C1 (Spec).  In the host sequence a frame of animatePath runs only once
\* the fly-in promise is resolved and the fly-in has no frame requested; the
\* first of them finds the camera at the fly-in's phase-1 pose; and once the
\* fly-in promise is resolved no further fly-in frame runs.
C1_StagesInSequence ==
    [][/\ (path'.frames > path.frames) =>
              /\ fly.promise = "resolved"
              /\ ~fly.requested
              /\ (path.frames = 0 =>
                      camera.driver = "fly" /\ camera.phaseNum = camera.phaseDen)
       /\ (fly.promise = "resolved") => (fly'.frames = fly.frames)]_vars

C1_Witness ==
    /\ lastFrame.driver = "path"
    /\ lastFrame.kind = "pose"
    /\ path.frames >= 2
    /\ fly.promise = "resolved"
    /\ fly.frames >= 2

\* C2 (SpecFly).  On the first fly-in frame whose timestamp is at least
\* duration later than the timestamp of the run's first frame, the phase is
\* exactly 1, the pose emitted has the end altitude, bearing and pitch, and
\* the promise is resolved with the end bearing and altitude.  (No frame
\* follows that one, so the state after any frame at or past firstTime +
\* duration is the state after the first such frame.)
C2_ClampedAtDuration ==
    (fly.frames >= 1 /\ now >= fly.firstTime + fly.duration) =>
        /\ camera.driver = "fly"
        /\ camera.phaseNum = camera.phaseDen
        /\ camera.altitude = fly.endAltitude * camera.den
        /\ camera.bearing = fly.endBearing * camera.den
        /\ camera.pitch = fly.endPitch * camera.den
        /\ fly.promise = "resolved"
        /\ fly.resolvedBearing = fly.endBearing * camera.den
        /\ fly.resolvedAltitude = fly.endAltitude * camera.den

\* The frame counter of the first frame whose travelled distance exceeds the
\* track length.
TerminalIndex == (TrackLength(coordinates) \div speed) + 1

CeilIndex == (TrackLength(coordinates) + speed - 1) \div speed

C4_FlyInResolvesOnce ==
    /\ <>(fly.promise = "resolved")
    /\ [](fly.resolves <= 1)
    /\ [](fly.promise = "resolved" => ~fly.requested)

\* A run whose first timestamp is 0 has resolved, after at least three frames.
C4_Witness ==
    /\ fly.promise = "resolved"
    /\ fly.resolves = 1
    /\ ~fly.requested
    /\ fly.firstTime = 0
    /\ fly.frames >= 3

\* C5 (Spec).  Every pose given to the map by either driver carries a bearing
\* b with 0 <= b < 360.  (The fly-in bearings and the bearings of the
\* schedule are in [0, 360): 0, and values of getBearing.)
C5_BearingInRange ==
    (camera.driver # "none") =>
        /\ camera.bearingDefined
        /\ 0 <= camera.bearing
        /\ camera.bearing < FullTurn * camera.den

\* C6 (SpecBearing).  normalizeBearing(current, target) is the rotation r
\* with -180 < r <= 180 and current + r congruent to target modulo 360, for
\* all whole bearings, negative and 360 or more included;
\* normalizeBearing(10, 350) = -20.
C6_ShortestRotation ==
    nb.done =>
        /\ -HalfTurn < nb.result
        /\ nb.result <= HalfTurn
        /\ (nb.current + nb.result - nb.target) % FullTurn = 0
        /\ (nb.current = 10 /\ nb.target = 350) => nb.result = -20

\* A call with a negative current bearing and a target past a full turn
\* whose shortest rotation is anticlockwise.
C6_Witness ==
    /\ nb.done
    /\ nb.current < 0
    /\ nb.target >= FullTurn
    /\ nb.result < 0

\* C7 (Spec).  For a track of at least 2 points the schedule initData returns
\* is contiguous and exhaustive: the first entry starts at index 0 and ratio
\* 0, the last ends at the last index and ratio 1, and every entry ends at
\* the index and ratio the next one starts at.
C7_ScheduleContiguous ==
    (pc \notin {"init", "initDataRejected"} /\ Len(coordinates) >= 2) =>
        /\ Len(bearingList) >= 1
        /\ bearingList[1].l = 0
        /\ bearingList[1].lNum = 0
        /\ bearingList[Len(bearingList)].r = Len(coordinates) - 1
        /\ bearingList[Len(bearingList)].rNum = TrackLength(coordinates)
        /\ TrackLength(coordinates) > 0
        /\ \A i \in 1..(Len(bearingList) - 1) :
               /\ bearingList[i].r = bearingList[i + 1].l
               /\ bearingList[i].rNum = bearingList[i + 1].lNum

\* C8 (Spec).  With a track of fewer than 2 points, or a simplified track of
\* fewer than 2 vertices, initData is rejected: it returns no schedule, so
\* that the map is never created and no frame ever runs.
C8_DegenerateRejected ==
    (pc # "init" /\ (Len(coordinates) < 2 \/ Len(simplifiedData) < 2)) =>
        /\ pc = "initDataRejected"
        /\ ~mapCreated
        /\ fly.frames = 0
        /\ path.frames = 0

\* A and B are the same point of the sphere, or opposite points.
SameOrAntipodal(A, B) ==
    LET a == latLonToCartesian(A.lat, A.lng)
        b == latLonToCartesian(B.lat, B.lng)
    IN  a = b \/ a = <<-b[1], -b[2], -b[3]>>

\* C9 (SpecProject).  projectPointToGreatCircle throws exactly when A and B
\* are the same point of the sphere or antipodal, and returns a point (a
\* latitude and a longitude, not NaN) in every other case.
C9_ThrowsOrProjects ==
    pj.done =>
        /\ pj.result.threw <=> SameOrAntipodal(pj.A, pj.B)
        /\ ~pj.result.threw => ~pj.result.nan

\* C10 (Spec).  When a frame of animatePath throws, the promise animatePath
\* returned is rejected.
C10_FailureRejects ==
    (path.error # "none") => (path.promise = "rejected")

\* Two positions are the same point (equal as fractions), or both are not
\* finite.
SamePosition(a, b) ==
    /\ a.finite = b.finite
    /\ a.lng * b.den = b.lng * a.den
    /\ a.lat * b.den = b.lat * a.den

\* C11 (SpecCamera).  The first smoothed position of a later, independent run
\* is what its own arguments give on a page with no history (the unsmoothed
\* position), whatever calls an earlier run made.
C11_NoLeakBetweenRuns ==
    (cp.run = 1 /\ cp.runCalls = 1 /\ cp.last.smooth) =>
        SamePosition(cp.last.result, cp.last.raw)

\* C12 (SpecCamera).  A call with smooth returns, in each of lng and lat,
\* 0.05 * raw + 0.95 * P when a previous position P is cached (here over the
\* common denominator SmoothDen * den(P)), and raw when none is; raw and P
\* are finite positions.
C12_SmoothedBlend ==
    (cp.calls >= 1 /\ cp.last.smooth /\ cp.last.raw.finite
     /\ cp.last.previous.finite) =>
        IF cp.last.previous.defined
        THEN /\ cp.last.result.finite
             /\ cp.last.result.den = SmoothDen * cp.last.previous.den
             /\ cp.last.result.lng =
                    cp.last.raw.lng * cp.last.previous.den
                    + SmoothNum * cp.last.previous.lng
             /\ cp.last.result.lat =
                    cp.last.raw.lat * cp.last.previous.den
                    + SmoothNum * cp.last.previous.lat
        ELSE cp.last.result = cp.last.raw

\* A smoothed call whose cached position is itself a blend and differs from
\* the raw position in both coordinates.
C12_Witness ==
    /\ cp.calls >= 3
    /\ cp.last.smooth
    /\ cp.last.previous.defined
    /\ cp.last.raw.finite
    /\ cp.last.previous.finite
    /\ cp.last.previous.den > 1
    /\ cp.last.raw.lng * cp.last.previous.den # cp.last.previous.lng
    /\ cp.last.raw.lat * cp.last.previous.den # cp.last.previous.lat

\* The zoom nearest to initial.zoom within [minZoom, maxZoom].
ClampedInitialZoom ==
    IF InitialZoom < zm.minZoom THEN zm.minZoom
    ELSE IF InitialZoom > zm.maxZoom THEN zm.maxZoom
    ELSE InitialZoom

\* The current state equals the initial state, and minZoom <= maxZoom.
ZoomIdenticalCall ==
    /\ zm.done
    /\ zm.speedNum = 2 * InitialSpeedNum
    /\ zm.lat = InitialLatMicro
    /\ zm.pitch = InitialPitch
    /\ zm.minZoom <= zm.maxZoom

\* C13 (SpecZoom), as amended.  Called with the initial state's speed,
\* latitude and pitch and minZoom <= maxZoom, calculateZoomForConstantSpeed
\* returns the initial zoom clamped to [minZoom, maxZoom]: exactly the
\* initial zoom when minZoom <= initial.zoom <= maxZoom.
C13_IdentityClamped == ZoomIdenticalCall => zm.result = ClampedInitialZoom

\* An identical-state call whose range lies above the initial zoom.
C13_Witness ==
    /\ ZoomIdenticalCall
    /\ zm.minZoom > InitialZoom
    /\ zm.result = zm.minZoom

\* C13 (SpecZoom), as stated.  Called with the initial state, it returns
\* exactly the initial zoom for every minZoom <= maxZoom.
C13_IdentityExact == ZoomIdenticalCall => zm.result = InitialZoom

\* C14 (Spec).  The phase of every pose given to the map, by the fly-in and
\* by the path-follow, lies in [0, 1], and within a run it is never smaller
\* than the phase of the pose before it.
C14_PhaseMonotone ==
    /\ [](camera.driver # "none" =>
              /\ camera.phaseDen > 0
              /\ 0 <= camera.phaseNum
              /\ camera.phaseNum <= camera.phaseDen)
    /\ [][(camera.driver # "none" /\ camera'.driver = camera.driver) =>
              /\ camera'.phaseDen = camera.phaseDen
              /\ camera'.phaseNum >= camera.phaseNum]_vars

\* A path-follow run has emitted several poses after a fly-in whose first
\* timestamp was 0 and whose last frame came later than its duration.
C14_Witness ==
    /\ lastFrame.driver = "path"
    /\ lastFrame.kind = "pose"
    /\ path.frames >= 3
    /\ camera.phaseNum > 0
    /\ fly.firstTime = 0
    /\ fly.frames >= 3

\* The schedule is contiguous and exhaustive, with intervals of positive
\* length: what initData returns for a track without repeated coordinates.
WellFormedSchedule ==
    /\ Len(bearingList) >= 1
    /\ bearingList[1].l = 0
    /\ bearingList[1].lNum = 0
    /\ bearingList[Len(bearingList)].r = Len(coordinates) - 1
    /\ bearingList[Len(bearingList)].rNum = TrackLength(coordinates)
    /\ \A i \in 1..Len(bearingList) : bearingList[i].lNum < bearingList[i].rNum
    /\ \A i \in 1..(Len(bearingList) - 1) :
           /\ bearingList[i].r = bearingList[i + 1].l
           /\ bearingList[i].rNum = bearingList[i + 1].lNum

\* C15 (Spec).  On every emitted path-follow frame the interval whose anchor
\* points the frame used contains the phase: startRatio <= phase < endRatio,
\* or it is the last interval.  (Stated for well-formed schedules.)
C15_IntervalContainsPhase ==
    (lastFrame.driver = "path" /\ lastFrame.kind = "pose" /\ WellFormedSchedule) =>
        \E i \in 1..Len(bearingList) :
            /\ bearingList[i].l = camera.target.l
            /\ bearingList[i].r = camera.target.r
            /\ bearingList[i].lNum <= camera.phaseNum
            /\ (camera.phaseNum < bearingList[i].rNum \/ i = Len(bearingList))

\* The reference bearing for a frame at `traveled` metres that uses interval
\* i, which has a next interval, as a fraction [num, den]: the interval's
\* bearing before the ease window, the shortest-turn blend inside it, the
\* next interval's bearing from the interval's end on.
ReferenceBearing(i, traveled) ==
    LET e == bearingList[i]
        next == bearingList[i + 1].bearing
        windowStart == e.lNum * RatioDen + (e.rNum - e.lNum) * (RatioDen - RatioNum)
        span == e.rNum * RatioDen - windowStart
    IN  IF traveled >= e.rNum THEN [num |-> next, den |-> 1]
        ELSE IF traveled * RatioDen >= windowStart
        THEN [num |-> e.bearing * span
                      + normalizeBearing(e.bearing, next)
                            * (traveled * RatioDen - windowStart),
              den |-> span]
        ELSE [num |-> e.bearing, den |-> 1]

\* C16 (Spec).  The bearing of every emitted path-follow frame whose interval
\* has a next interval equals the reference bearing, for every next bearing
\* in [0, 360).  (Stated for well-formed schedules.)
C16_BearingMatchesReference ==
    (lastFrame.driver = "path" /\ lastFrame.kind = "pose" /\ WellFormedSchedule) =>
        \A i \in 1..(Len(bearingList) - 1) :
            (bearingList[i].l = camera.target.l /\ bearingList[i].r = camera.target.r) =>
                /\ camera.bearingDefined
                /\ camera.bearing * ReferenceBearing(i, camera.phaseNum).den
                       = ReferenceBearing(i, camera.phaseNum).num * camera.den

C18_IndexRatioCursorInSchedule ==
    (bearingList[Len(bearingList)].r = Len(coordinates) - 1) =>
        /\ (path.requested
            /\ speed * path.index <= TrackLength(coordinates)) =>
               path.nextBearingIndex <= Len(bearingList)
        /\ ~(lastFrame.kind = "failed" /\ path.error = "TypeError")

\* C19 (Spec).  Every frame of animatePath computes its camera position with
\* smoothing enabled (a blend with the cached position, which the fly-in has
\* left defined), and every frame of flyInAndRotate with smoothing disabled.
C19_SmoothingPerDriver ==
    /\ (lastFrame.driver = "path" /\ lastFrame.kind = "pose") =>
           previousCameraPosition.smoothed
    /\ (lastFrame.driver = "fly") => ~previousCameraPosition.smoothed

\* C20 (Spec).  The first pose the path-follow gives to the map has the
\* bearing and the altitude of the last pose of the fly-in before it, which
\* are the pair the fly-in resolved with.
C20_StageContinuity ==
    [][(path.frames = 0 /\ path'.frames = 1 /\ lastFrame'.kind = "pose") =>
           /\ camera.driver = "fly"
           /\ camera'.driver = "path"
           /\ camera'.bearingDefined
           /\ camera'.bearing * camera.den = camera.bearing * camera'.den
           /\ camera'.altitude * camera.den = camera.altitude * camera'.den
           /\ camera.bearing = fly.resolvedBearing
           /\ camera.altitude = fly.resolvedAltitude]_vars

\* The path-follow has emitted its first pose, with a bearing other than
\* the fly-in's start bearing 0.
C20_Witness ==
    /\ path.frames = 1
    /\ lastFrame.driver = "path"
    /\ lastFrame.kind = "pose"
    /\ camera.driver = "path"
    /\ camera.bearing # 0
    /\ fly.promise = "resolved"

\* C21: when animatePath has resolved, the last line-gradient it set has
\* progress exactly 1: the whole path is drawn.
C21_FullRevealAtResolve ==
    path.promise = "resolved" => reveal.set /\ reveal.num = reveal.den

\* A step that runs one frame callback of the driver.  `requested` is the
\* driver's pending callback: the frame that runs consumes it, and sets it
\* again iff it ends in window.requestAnimationFrame(frame).
FrameOfFly == fly'.frames = fly.frames + 1
FrameOfPath == path'.frames = path.frames + 1

\* C22: within one driver run every frame that is not terminal requests
\* exactly one next frame as its last action, and a terminal frame requests
\* none, so at most one frame callback is pending and frames never overlap.
C22_EachFrameRequestsOne ==
    [][/\ FrameOfFly => (fly'.requested <=> lastFrame'.kind # "final")
       /\ FrameOfPath => (path'.requested <=> lastFrame'.kind # "terminal")]_vars

\* The part of C22 that does not depend on a frame completing: a frame is
\* requested only by a run whose promise exists, and never after the run's
\* terminal frame or a frame that threw.
C22_NoFrameAfterEnd ==
    /\ fly.requested => fly.promise = "pending"
    /\ path.requested => path.promise = "pending" /\ path.error = "none"

\* C23: a call of computeCameraPosition with pitch exactly 90 returns a
\* finite ground position: the zero divisor tan(90 - pitch) is clamped.
C23_FiniteAtPitch90 ==
    (cp.calls >= 1 /\ SingularPitch(cp.last.pitch)) => cp.last.result.finite

\* C24 (SpecCamera).  After any sequence of computeCameraPosition calls the
\* position cache is the position the most recent call returned; a call
\* without smooth overwrites the cache too, with its raw position, and
\* returns that raw position whatever the cache held.
C24_CacheIsLastResult ==
    cp.calls >= 1 =>
        /\ cp.cache = cp.last.result
        /\ cp.cache.defined
        /\ ~cp.last.smooth => cp.last.result = cp.last.raw

\* A call without smooth that found another position cached and replaced it.
C24_Witness ==
    /\ cp.calls >= 2
    /\ ~cp.last.smooth
    /\ cp.last.previous.defined
    /\ cp.last.previous.finite
    /\ cp.last.result.finite
    /\ ~SamePosition(cp.last.previous, cp.last.result)
    /\ cp.cache = cp.last.result

\* C25 (SpecFly).  In a fly-in run the start time is the timestamp of the
\* run's first frame, whatever that timestamp is (0 included), and no later
\* frame changes it.
C25_StartLatchedOnce ==
    fly.frames >= 1 => fly.start = fly.firstTime

====
